---- MODULE Spec2Model ----
(***************************************************************************)
(* Model of amethyst_assets/src/reload.rs: the hot-reload strategy         *)
(* (HotReloadStrategy, HotReloadSystem, HotReloadBundle) driven by a       *)
(* dispatcher that runs its systems once per frame, and the SingleFile     *)
(* reload handle.                                                          *)
(*                                                                         *)
(* Time is an integer number of clock units; UnitsPerSec units make one    *)
(* second, so that Duration::as_secs() (truncation to whole seconds) is a  *)
(* real conversion and not the identity.                                   *)
(***************************************************************************)
EXTENDS Integers, Sequences, FiniteSets, TLC

\* ---------------------------------------------------------------- bounds
UnitsPerSec == 2
MaxTime == 8
MaxInterval == 2
MaxReaders == 2
MaxStamp == 2
MaxHandles == 2

VARIABLES
    strategy,   \* the HotReloadStrategy resource (its `inner` enum)
    twin,       \* for default(): an every(1) put through the same calls
    fires,      \* instants of the last two runs that set do_reload
    ctor,       \* which constructor built `strategy`
    now,        \* the monotonic clock read by Instant::now()
    systems,    \* the dispatcher's systems, in execution order
    early,      \* ids of the readers added before HotReloadBundle::build
    phase,      \* "build": DispatcherBuilder in use; "run": dispatching
    pc,         \* position in `systems` of the next system of this frame
    log,        \* what each system executed so far in this frame observed
    lastCall,   \* last mutating call on the strategy: new / trigger / run
    trigNow,    \* trigger() was called during the current frame
    trigPrev,   \* trigger() was called during the previous frame
    handles,    \* the live boxed reload handles of an asset, by slot
    out         \* the last call on a handle and what it returned

hvars == <<handles, out>>
vars == <<strategy, twin, fires, ctor, now, systems, early, phase, pc, log, lastCall,
          trigNow, trigPrev, hvars>>

\* ------------------------------------------------- HotReloadStrategy
\* HotReloadStrategy::every(n), constructed at instant t
every(n, t) ==
    [kind |-> "Every", interval |-> n, last |-> t, do_reload |-> FALSE]

\* HotReloadStrategy::when_triggered()
when_triggered == [kind |-> "Trigger", triggered |-> FALSE]

\* never() written as a copy of when_triggered()
never_AsTrigger == [kind |-> "Trigger", triggered |-> FALSE]

\* HotReloadStrategy::never()
never == [kind |-> "Never"]

\* default() written as every(2)
default_Two(t) == every(2, t)

\* Default for HotReloadStrategy, constructed at instant t
default(t) == every(1, t)

\* trigger() that also arms an Every strategy
trigger_ArmsEvery(s) ==
    CASE s.kind = "Trigger" -> [s EXCEPT !.triggered = TRUE]
      [] s.kind = "Every" -> [s EXCEPT !.do_reload = TRUE]
      [] s.kind = "Never" -> s

\* trigger() that flips the flag instead of setting it
trigger_Toggle(s) ==
    IF s.kind = "Trigger" THEN [s EXCEPT !.triggered = ~s.triggered] ELSE s

\* HotReloadStrategy::trigger(&mut self)
trigger(s) ==
    IF s.kind = "Trigger" THEN [s EXCEPT !.triggered = TRUE] ELSE s

\* HotReloadStrategy::needs_reload(&self)
needs_reload(s) ==
    CASE s.kind = "Every" -> s.do_reload
      [] s.kind = "Trigger" -> s.triggered
      [] s.kind = "Never" -> FALSE

\* Instant::elapsed() of `last` read at instant t
elapsed(last, t) == t - last

\* Duration::as_secs(): the whole seconds of a duration, fraction dropped
as_secs(d) == d \div UnitsPerSec

\* run() that leaves the Trigger flag as it is
run_NoClear(s, t) ==
    CASE s.kind = "Trigger" -> s
      [] s.kind = "Every" ->
            IF as_secs(elapsed(s.last, t)) > s.interval
            THEN [s EXCEPT !.do_reload = TRUE, !.last = t]
            ELSE [s EXCEPT !.do_reload = FALSE]
      [] s.kind = "Never" -> s

\* run() that sets do_reload but forgets to reset `last`
run_KeepLast(s, t) ==
    CASE s.kind = "Trigger" -> [s EXCEPT !.triggered = FALSE]
      [] s.kind = "Every" ->
            IF as_secs(elapsed(s.last, t)) > s.interval
            THEN [s EXCEPT !.do_reload = TRUE]
            ELSE [s EXCEPT !.do_reload = FALSE]
      [] s.kind = "Never" -> s

\* run() comparing with >= instead of >
run_Ge(s, t) ==
    CASE s.kind = "Trigger" -> [s EXCEPT !.triggered = FALSE]
      [] s.kind = "Every" ->
            IF as_secs(elapsed(s.last, t)) >= s.interval
            THEN [s EXCEPT !.do_reload = TRUE, !.last = t]
            ELSE [s EXCEPT !.do_reload = FALSE]
      [] s.kind = "Never" -> s

\* run() that resets `last` on every run, firing or not
run_ResetAlways(s, t) ==
    CASE s.kind = "Trigger" -> [s EXCEPT !.triggered = FALSE]
      [] s.kind = "Every" ->
            IF as_secs(elapsed(s.last, t)) > s.interval
            THEN [s EXCEPT !.do_reload = TRUE, !.last = t]
            ELSE [s EXCEPT !.do_reload = FALSE, !.last = t]
      [] s.kind = "Never" -> s

\* HotReloadSystem::run, executed at instant t
run(s, t) ==
    CASE s.kind = "Trigger" -> [s EXCEPT !.triggered = FALSE]
      [] s.kind = "Every" ->
            IF as_secs(elapsed(s.last, t)) > s.interval
            THEN [s EXCEPT !.do_reload = TRUE, !.last = t]
            ELSE [s EXCEPT !.do_reload = FALSE]
      [] s.kind = "Never" -> s

\* ------------------------------------------------------- dispatcher
HotReloadSystem == [sys |-> "hot_reload", id |-> 0]
Reader(i) == [sys |-> "reader", id |-> i]

\* add() that puts the new system in front of the others
add_Front(ss, s) == <<s>> \o ss

\* DispatcherBuilder::add(system, name, &[]): with no dependencies the
\* system runs after the systems added before it
add(ss, s) == Append(ss, s)

Built == \E i \in DOMAIN systems : systems[i] = HotReloadSystem
NumReaders == Cardinality({i \in DOMAIN systems : systems[i].sys = "reader"})

Init ==
    /\ \/ \E n \in 0..MaxInterval : strategy = every(n, 0) /\ ctor = "every"
       \/ strategy = when_triggered /\ ctor = "when_triggered"
       \/ strategy = never /\ ctor = "never"
       \/ strategy = default(0) /\ ctor = "default"
    /\ twin = IF ctor = "default" THEN every(1, 0) ELSE never
    /\ fires = <<>>
    /\ now = 0
    /\ systems = <<>>
    /\ early = {}
    /\ phase = "build"
    /\ pc = 1
    /\ log = <<>>
    /\ lastCall = "new"
    /\ trigNow = FALSE
    /\ trigPrev = FALSE
    /\ handles = <<>>
    /\ out = [op |-> "none"]

\* the clock advances by one unit
Advance ==
    /\ now < MaxTime
    /\ now' = now + 1
    /\ UNCHANGED <<strategy, twin, fires, ctor, systems, early, phase, pc, log, lastCall,
                   trigNow, trigPrev, hvars>>

\* an asset processing system (a reader of the strategy) is added
AddReader ==
    /\ phase = "build"
    /\ NumReaders < MaxReaders
    /\ systems' = add(systems, Reader(NumReaders + 1))
    /\ UNCHANGED <<strategy, twin, fires, ctor, now, early, phase, pc, log, lastCall,
                   trigNow, trigPrev, hvars>>

\* HotReloadBundle::build: installs the strategy, adds HotReloadSystem
BundleBuild ==
    /\ phase = "build"
    /\ ~Built
    /\ early' = {systems[i].id : i \in DOMAIN systems}
    /\ systems' = add(systems, HotReloadSystem)
    /\ UNCHANGED <<strategy, twin, fires, ctor, now, phase, pc, log, lastCall,
                   trigNow, trigPrev, hvars>>

\* DispatcherBuilder::build: the dispatcher starts dispatching frames
StartDispatch ==
    /\ phase = "build"
    /\ Built
    /\ phase' = "run"
    /\ UNCHANGED <<strategy, twin, fires, ctor, now, systems, early, pc, log, lastCall,
                   trigNow, trigPrev, hvars>>

\* application code calls HotReloadStrategy::trigger at any point
Trigger ==
    /\ strategy' = trigger(strategy)
    /\ twin' = trigger(twin)
    /\ lastCall' = "trigger"
    /\ trigNow' = TRUE
    /\ UNCHANGED <<fires, ctor, now, systems, early, phase, pc, log, trigPrev,
                   hvars>>

\* the dispatcher runs a reader: it consults needs_reload()
ReaderRun ==
    /\ phase = "run"
    /\ pc <= Len(systems)
    /\ systems[pc].sys = "reader"
    /\ log' = Append(log, [by |-> systems[pc], val |-> needs_reload(strategy)])
    /\ pc' = pc + 1
    /\ UNCHANGED <<strategy, twin, fires, ctor, now, systems, early, phase, lastCall,
                   trigNow, trigPrev, hvars>>

\* the run that led to strategy s set do_reload
Fired(s) == s.kind = "Every" /\ s.do_reload
LastTwo(q) == IF Len(q) > 2 THEN Tail(q) ELSE q

\* the dispatcher runs HotReloadSystem (the tick-advance)
SystemRun ==
    /\ phase = "run"
    /\ pc <= Len(systems)
    /\ systems[pc] = HotReloadSystem
    /\ strategy' = run(strategy, now)
    /\ twin' = run(twin, now)
    /\ fires' = IF Fired(strategy') THEN LastTwo(Append(fires, now)) ELSE fires
    /\ lastCall' = "run"
    /\ log' = Append(log, [by |-> systems[pc], val |-> needs_reload(strategy')])
    /\ pc' = pc + 1
    /\ UNCHANGED <<ctor, now, systems, early, phase, trigNow, trigPrev, hvars>>

\* every system of the frame has run: the next frame begins
EndFrame ==
    /\ phase = "run"
    /\ pc > Len(systems)
    /\ pc' = 1
    /\ log' = <<>>
    /\ trigPrev' = trigNow
    /\ trigNow' = FALSE
    /\ UNCHANGED <<strategy, twin, fires, ctor, now, systems, early, phase, lastCall,
                   hvars>>

Next ==
    \/ Advance
    \/ AddReader
    \/ BundleBuild
    \/ StartDispatch
    \/ Trigger
    \/ ReaderRun
    \/ SystemRun
    \/ EndFrame

Spec == Init /\ [][Next]_vars

\* ------------------------------------------------------- SingleFile
\* the values the type parameters and arguments of SingleFile range over
Formats == {"PngFormat", "ObjFormat"}
OptionsValues == {"opt1", "opt2"}
Paths == {"a.png", "b.obj"}
Sources == {"dir1", "dir2"}
Stamps == 0..MaxStamp

\* Format::NAME, the static name of a format type
NAME(f) == IF f = "PngFormat" THEN "PNG" ELSE "WAVEFRONT_OBJ"

\* the Result<u64> that Source::modified(path) answers with
Ok(v) == [ok |-> TRUE, val |-> v]
Err == [ok |-> FALSE, val |-> 0]
Answers == {Ok(v) : v \in Stamps} \cup {Err}

\* Result::unwrap_or(default)
unwrap_or(r, d) == IF r.ok THEN r.val ELSE d

\* SingleFile::new
SingleFile_new(format, modified, options, path, source) ==
    [format |-> format, modified |-> modified, options |-> options,
     path |-> path, source |-> source]

\* clone() that does not carry the modification time over
SingleFile_clone_NoStamp(h) ==
    [format |-> h.format, modified |-> 0, options |-> h.options,
     path |-> h.path, source |-> h.source]

\* Clone for SingleFile
SingleFile_clone(h) ==
    [format |-> h.format, modified |-> h.modified, options |-> h.options,
     path |-> h.path, source |-> h.source]

\* ReloadClone::cloned: Box::new(self.clone())
cloned(h) == SingleFile_clone(h)

\* Clone for Box<Reload<A>>
Box_clone(b) == cloned(b)

\* needs_reload() comparing with >= instead of >
SingleFile_needs_reload_Ge(h, ans) ==
    h.modified # 0 /\ (unwrap_or(ans, 0) >= h.modified)

\* needs_reload() that reports any difference of the two times
SingleFile_needs_reload_Ne(h, ans) ==
    h.modified # 0 /\ (unwrap_or(ans, 0) # h.modified)

\* needs_reload() without the modified != 0 test
SingleFile_needs_reload_NoZeroTest(h, ans) ==
    unwrap_or(ans, 0) > h.modified

\* SingleFile::needs_reload, `ans` being what self.source.modified(&self.path)
\* answers
SingleFile_needs_reload(h, ans) ==
    h.modified # 0 /\ (unwrap_or(ans, 0) > h.modified)

\* SingleFile::name
SingleFile_name(h) == h.path

\* SingleFile::format
SingleFile_format(h) == NAME(h.format)

\* the errors an import can fail with (BoxedErr values)
ImportErrors == {"NotFound", "BadData"}

\* what loading the file from the source gives an import: the modification
\* time read with the bytes, or a failure
Failed(e) == [ok |-> FALSE, err |-> e]
LoadResults == {Ok(v) : v \in Stamps} \cup {Failed(e) : e \in ImportErrors}

\* Format::import(name, source, options, create_reload), `load` being what
\* loading the file gave
import(format, name, source, options, create_reload, load) ==
    IF load.ok
    THEN [ok |-> TRUE,
          data |-> <<format, name, source, options>>,
          has_reload |-> create_reload,
          reload |-> SingleFile_new(format, load.val, options, name, source)]
    ELSE [ok |-> FALSE, err |-> load.err]

\* one invocation of import: its arguments, what loading gave, its result
ImportCall(format, name, source, options, create_reload, load) ==
    [args |-> [format |-> format, name |-> name, source |-> source,
               options |-> options, create_reload |-> create_reload],
     load |-> load,
     ret |-> import(format, name, source, options, create_reload, load)]

\* reload() that tries the import a second time when the first one fails
SingleFile_reload_Retry(h, load) ==
    LET c1 == ImportCall(h.format, h.path, h.source, h.options, TRUE, load)
        c2 == ImportCall(h.format, h.path, h.source, h.options, TRUE, load)
    IN  IF c1.ret.ok
        THEN [calls |-> <<c1>>, val |-> c1.ret]
        ELSE [calls |-> <<c1, c2>>, val |-> c2.ret]

\* reload() that does not ask the import for the reload metadata
SingleFile_reload_NoMeta(h, load) ==
    LET c == ImportCall(h.format, h.path, h.source, h.options, FALSE, load)
    IN  [calls |-> <<c>>, val |-> c.ret]

\* SingleFile::reload(self: Box<Self>), `load` being what loading the file
\* gives an import; the result lists the imports made and the value
\* returned
SingleFile_reload(h, load) ==
    LET c == ImportCall(h.format, h.path, h.source, h.options, TRUE, load)
    IN  [calls |-> <<c>>, val |-> c.ret]

\* needs_reload() that remembers the time the source answered with
SingleFile_needs_reload_self_Refresh(h, ans) ==
    [h EXCEPT !.modified = unwrap_or(ans, h.modified)]

\* the handle after SingleFile::needs_reload(&self): a shared borrow
SingleFile_needs_reload_self(h, ans) == h

Slots == 1..MaxHandles
FreeSlots == Slots \ DOMAIN handles
\* the storage puts a new handle in its first free slot
FreeSlot == CHOOSE i \in FreeSlots : \A j \in FreeSlots : i <= j
Put(hs, i, h) == [j \in DOMAIN hs \cup {i} |-> IF j = i THEN h ELSE hs[j]]
Take(hs, i) == [j \in DOMAIN hs \ {i} |-> hs[j]]

HandleInit ==
    /\ strategy = every(1, 0)
    /\ twin = never
    /\ fires = <<>>
    /\ ctor = "every"
    /\ now = 0
    /\ systems = <<>>
    /\ early = {}
    /\ phase = "build"
    /\ pc = 1
    /\ log = <<>>
    /\ lastCall = "new"
    /\ trigNow = FALSE
    /\ trigPrev = FALSE
    /\ handles = <<>>
    /\ out = [op |-> "none"]

svars == <<strategy, twin, fires, ctor, now, systems, early, phase, pc, log, lastCall,
           trigNow, trigPrev>>

\* a loader creates the reload handle of the asset when it has none
New ==
    /\ DOMAIN handles = {}
    /\ \E f \in Formats, m \in Stamps, o \in OptionsValues,
          p \in Paths, src \in Sources :
          handles' = Put(handles, FreeSlot, SingleFile_new(f, m, o, p, src))
    /\ out' = [op |-> "new", slot |-> FreeSlot]
    /\ UNCHANGED svars

\* the storage duplicates a boxed handle
Clone ==
    /\ FreeSlots # {}
    /\ \E s \in DOMAIN handles :
          /\ handles' = Put(handles, FreeSlot, Box_clone(handles[s]))
          /\ out' = [op |-> "clone", slot |-> s, dup |-> FreeSlot]
    /\ UNCHANGED svars

\* Reload::needs_reload on a live handle, the source answering `ans`
NeedsReload ==
    /\ \E s \in DOMAIN handles : \E ans \in Answers :
          /\ out' = [op |-> "needs_reload", slot |-> s, ans |-> ans,
                     val |-> SingleFile_needs_reload(handles[s], ans)]
          /\ handles' =
                Put(handles, s, SingleFile_needs_reload_self(handles[s], ans))
    /\ UNCHANGED svars

\* Reload::name on a live handle
Name ==
    /\ \E s \in DOMAIN handles :
          out' = [op |-> "name", slot |-> s,
                  val |-> SingleFile_name(handles[s])]
    /\ UNCHANGED <<handles, svars>>

\* Reload::format on a live handle
FormatName ==
    /\ \E s \in DOMAIN handles :
          out' = [op |-> "format", slot |-> s,
                  val |-> SingleFile_format(handles[s])]
    /\ UNCHANGED <<handles, svars>>

\* Reload::reload: the box is moved into the call and is gone afterwards
Reload ==
    /\ \E s \in DOMAIN handles : \E load \in LoadResults :
          LET r == SingleFile_reload(handles[s], load)
          IN  /\ handles' = Take(handles, s)
              /\ out' = [op |-> "reload", slot |-> s, self |-> handles[s],
                         calls |-> r.calls, val |-> r.val]
    /\ UNCHANGED svars

\* the storage keeps the handle that a successful reload returned
Store ==
    /\ out.op = "reload"
    /\ out.val.ok
    /\ out.val.has_reload
    /\ FreeSlots # {}
    /\ handles' = Put(handles, FreeSlot, out.val.reload)
    /\ out' = [op |-> "store", slot |-> FreeSlot,
               old |-> out.self.modified, seen |-> out.calls[1].load.val]
    /\ UNCHANGED svars

HandleNext ==
    \/ New
    \/ Clone
    \/ NeedsReload
    \/ Name
    \/ FormatName
    \/ Reload
    \/ Store

HandleSpec == HandleInit /\ [][HandleNext]_vars

\* ------------------------------------------- the clock without an end
\* the elapsed time from which run() fires whatever the interval is
ElapsedCap == (MaxInterval + 1) * UnitsPerSec
\* the oldest instant told apart from older ones once now = MaxTime
Floor == MaxTime - ElapsedCap
Max(a, b) == IF a >= b THEN a ELSE b
\* an instant after the origin of the clock has moved on by one unit
Shift(t) == Max(t - 1, Floor)
ShiftStrategy(s) ==
    IF s.kind = "Every" THEN [s EXCEPT !.last = Shift(s.last)] ELSE s

LiveInit ==
    /\ \/ \E n \in 0..MaxInterval : strategy = every(n, 0) /\ ctor = "every"
       \/ strategy = default(0) /\ ctor = "default"
    /\ twin = IF ctor = "default" THEN every(1, 0) ELSE never
    /\ fires = <<>>
    /\ now = 0
    /\ systems = <<>>
    /\ early = {}
    /\ phase = "build"
    /\ pc = 1
    /\ log = <<>>
    /\ lastCall = "new"
    /\ trigNow = FALSE
    /\ trigPrev = FALSE
    /\ handles = <<>>
    /\ out = [op |-> "none"]

\* the clock advances by one unit, for ever: once now = MaxTime the
\* instants are counted from an origin that moves on with the clock
LiveAdvance ==
    /\ IF now < MaxTime
       THEN /\ now' = now + 1
            /\ UNCHANGED <<strategy, twin, fires>>
       ELSE /\ now' = now
            /\ strategy' = ShiftStrategy(strategy)
            /\ twin' = ShiftStrategy(twin)
            /\ fires' = [i \in DOMAIN fires |-> Shift(fires[i])]
    /\ UNCHANGED <<ctor, systems, early, phase, pc, log, lastCall,
                   trigNow, trigPrev, hvars>>

LiveNext ==
    \/ LiveAdvance
    \/ AddReader
    \/ BundleBuild
    \/ StartDispatch
    \/ Trigger
    \/ ReaderRun
    \/ SystemRun
    \/ EndFrame

\* the dispatcher gets built and keeps dispatching frames, each system
\* of a frame in its turn, and the clock keeps advancing
LiveSpec ==
    /\ LiveInit
    /\ [][LiveNext]_vars
    /\ WF_vars(LiveAdvance)
    /\ WF_vars(BundleBuild)
    /\ WF_vars(StartDispatch)
    /\ WF_vars(ReaderRun)
    /\ WF_vars(SystemRun)
    /\ WF_vars(EndFrame)

TypeOK ==
    /\ now \in 0..MaxTime
    /\ pc \in 1..(Len(systems) + 1)
    /\ Len(log) = pc - 1

\* ------------------------------------------------ observations of a frame
ReaderEntries == {i \in DOMAIN log : log[i].by.sys = "reader"}
RunEntries == {i \in DOMAIN log : log[i].by = HotReloadSystem}
FrameDone == phase = "run" /\ pc > Len(systems)
\* HotReloadSystem was added after every reader, as the NOTEs ask
AddedLast == early = {i \in 1..NumReaders : TRUE}

\* ------------------------------------------------------------ claims

\* C1: a when_triggered() strategy reports needs_reload() = false before
\* the first trigger(), true from a trigger() up to the next
\* HotReloadSystem::run, and false again from that run until another
\* trigger(): needs_reload() is true exactly when the last mutating call
\* on the strategy was trigger().
C1_TriggerPulse ==
    ctor = "when_triggered" =>
        (needs_reload(strategy) <=> lastCall = "trigger")

\* a trigger() was made in this frame and HotReloadSystem ran after it
C1_Witness ==
    /\ ctor = "when_triggered"
    /\ trigNow
    /\ lastCall = "run"
    /\ ~needs_reload(strategy)

\* C2 (as claimed): for every(interval), interval > 0, a
\* HotReloadSystem::run executed when more than `interval` seconds (whole
\* or fractional) have elapsed since `last` leaves needs_reload() true and
\* `last` reset to the current time.
C2_FiresWhenElapsedExceeds ==
    [][(/\ SystemRun
        /\ ctor = "every"
        /\ strategy.interval > 0
        /\ elapsed(strategy.last, now) > strategy.interval * UnitsPerSec)
       => (needs_reload(strategy') /\ strategy'.last = now)]_vars

\* C3 (as claimed): with when_triggered() and HotReloadSystem added after
\* the readers, every reader of the frame that follows a frame in which
\* trigger() was called reads needs_reload() = true.
C3_TriggerSeenNextFrame ==
    (ctor = "when_triggered" /\ phase = "run" /\ AddedLast /\ trigPrev) =>
        \A i \in ReaderEntries : log[i].val

\* C4 (as claimed): in every frame HotReloadSystem::run executes exactly
\* once and after every reader of that frame, wherever the readers were
\* added.
C4_RunAfterAllReaders ==
    phase = "run" =>
        /\ FrameDone => Cardinality(RunEntries) = 1
        /\ \A i \in ReaderEntries : \A j \in RunEntries : i < j

\* C4 (amended): in every frame HotReloadSystem::run executes exactly
\* once, after every reader that was added to the dispatcher before the
\* bundle and before every reader that was added after the bundle.
C4_RunAfterEarlierReaders ==
    phase = "run" =>
        /\ FrameDone => Cardinality(RunEntries) = 1
        /\ \A j \in RunEntries :
              {log[i].by.id : i \in {k \in ReaderEntries : k < j}} = early

\* a whole frame has run with a reader on each side of the bundle
C4_Witness ==
    /\ FrameDone
    /\ early # {}
    /\ NumReaders > Cardinality(early)
    /\ Cardinality(RunEntries) = 1

\* C5 (as claimed): for every(n), do_reload is recomputed exactly once
\* per frame and all the readers of a frame read the same value.
C5_SameValueInFrame ==
    (ctor = "every" /\ phase = "run") =>
        /\ FrameDone => Cardinality(RunEntries) = 1
        /\ \A i, j \in ReaderEntries : log[i].val = log[j].val

\* the reads i and j of a frame are on the same side of the tick-advance
SameSide(i, j) == \A k \in RunEntries : (i < k) <=> (j < k)

\* C5 (amended): for every(n), do_reload is recomputed exactly once per
\* frame, the reads of a frame made on the same side of the tick-advance
\* return the same value, and every change of the strategy is a whole
\* transition: do_reload set with `last` reset to now, or do_reload
\* cleared with `last` kept.
C5_StableBetweenRuns ==
    /\ [](  (ctor = "every" /\ phase = "run") =>
              /\ FrameDone => Cardinality(RunEntries) = 1
              /\ \A i, j \in ReaderEntries :
                    SameSide(i, j) => log[i].val = log[j].val)
    /\ [][(ctor = "every" /\ strategy' # strategy) =>
              /\ strategy'.kind = "Every"
              /\ strategy'.interval = strategy.interval
              /\ \/ strategy'.do_reload /\ strategy'.last = now
                 \/ ~strategy'.do_reload /\ strategy'.last = strategy.last]_vars

\* two readers of one frame both read do_reload = true before the run
C5_Witness ==
    /\ ctor = "every"
    /\ FrameDone
    /\ \E i, j \in ReaderEntries :
          i < j /\ SameSide(i, j) /\ log[i].val /\ log[j].val

\* C6: a never() strategy reports needs_reload() = false in every state,
\* whatever trigger() calls and HotReloadSystem runs were made.
C6_NeverIsNeverDue ==
    ctor = "never" => ~needs_reload(strategy)

\* trigger() has been called and HotReloadSystem has run, time has passed
C6_Witness ==
    /\ ctor = "never"
    /\ trigNow
    /\ RunEntries # {}
    /\ now > 0

\* C7: for a SingleFile handle with modified = M, M != 0, needs_reload()
\* is true exactly when the source's modification query succeeds with a
\* value strictly greater than M; an equal or lower value, or a failed
\* query, gives false, and the call always returns a boolean.
C7_StaleIffNewer ==
    /\ \A s \in DOMAIN handles : \A ans \in Answers :
          handles[s].modified # 0 =>
              (SingleFile_needs_reload(handles[s], ans)
                  <=> (ans.ok /\ ans.val > handles[s].modified))
    /\ (out.op = "needs_reload" /\ handles[out.slot].modified # 0) =>
          /\ out.val \in BOOLEAN
          /\ out.val <=> (out.ans.ok /\ out.ans.val > handles[out.slot].modified)

\* needs_reload() was called on a handle with M != 0 and the source
\* answered with a newer time
C7_Witness ==
    /\ out.op = "needs_reload"
    /\ handles[out.slot].modified # 0
    /\ out.ans.ok
    /\ out.ans.val > handles[out.slot].modified
    /\ out.val = TRUE

\* C8: a SingleFile handle with modified = 0 reports needs_reload() =
\* false for every answer of the source (any time, or an error), and so
\* does every handle duplicated from it.
C8_ZeroNeverStale ==
    /\ \A s \in DOMAIN handles : \A ans \in Answers :
          handles[s].modified = 0 => ~SingleFile_needs_reload(handles[s], ans)
    /\ (out.op = "needs_reload" /\ handles[out.slot].modified = 0) => ~out.val
    /\ (out.op = "clone" /\ handles[out.slot].modified = 0) =>
          \A ans \in Answers : ~SingleFile_needs_reload(handles[out.dup], ans)

\* needs_reload() was called on a handle with modified = 0, next to its
\* duplicate, and the source answered with a time greater than 0
C8_Witness ==
    /\ out.op = "needs_reload"
    /\ handles[out.slot].modified = 0
    /\ out.ans.ok
    /\ out.ans.val > 0
    /\ Cardinality(DOMAIN handles) > 1
    /\ out.val = FALSE

\* C10: duplicating a boxed handle gives a handle with the same format,
\* modified, options, path and source, so that needs_reload() (for the
\* same source answer), name() and format() agree on both; and a reload()
\* consumes only the handle it is called on: every other handle stays
\* live and unchanged.
C10_DuplicateIsEqualAndIndependent ==
    /\ [](out.op = "clone" =>
            /\ out.dup # out.slot
            /\ handles[out.dup].format = handles[out.slot].format
            /\ handles[out.dup].modified = handles[out.slot].modified
            /\ handles[out.dup].options = handles[out.slot].options
            /\ handles[out.dup].path = handles[out.slot].path
            /\ handles[out.dup].source = handles[out.slot].source
            /\ \A ans \in Answers :
                  SingleFile_needs_reload(handles[out.dup], ans)
                      = SingleFile_needs_reload(handles[out.slot], ans)
            /\ SingleFile_name(handles[out.dup])
                  = SingleFile_name(handles[out.slot])
            /\ SingleFile_format(handles[out.dup])
                  = SingleFile_format(handles[out.slot]))
    /\ [][out'.op = "reload" =>
            /\ DOMAIN handles' = DOMAIN handles \ {out'.slot}
            /\ \A s \in DOMAIN handles' : handles'[s] = handles[s]]_vars

\* one of two equal handles, with modified != 0, has been consumed by
\* reload() and the other one is still there
C10_Witness ==
    /\ out.op = "reload"
    /\ out.self.modified # 0
    /\ \E s \in DOMAIN handles : handles[s] = out.self

\* C11: reload() invokes the import exactly once, returns what that import
\* returned (its error, when it fails) unchanged, and the handle it was
\* called on is gone afterwards, whether the import succeeded or failed:
\* every later call acts on a handle that is still live.
C11_ReloadOneShot ==
    /\ [](out.op = "reload" =>
            /\ Len(out.calls) = 1
            /\ out.val = out.calls[1].ret
            /\ ~out.calls[1].load.ok =>
                  (~out.val.ok /\ out.val.err = out.calls[1].load.err)
            /\ out.slot \notin DOMAIN handles)
    /\ [][(out' # out /\ out'.op \in {"needs_reload", "name", "format",
                                       "reload", "clone"})
            => out'.slot \in DOMAIN handles]_vars

\* a reload() whose import failed, its handle gone
C11_Witness ==
    /\ out.op = "reload"
    /\ ~out.val.ok
    /\ out.val.err = "BadData"
    /\ out.slot \notin DOMAIN handles

C15_ReloadReimports ==
    out.op = "reload" =>
        /\ out.calls # <<>>
        /\ \A i \in DOMAIN out.calls :
              out.calls[i].args =
                  [format |-> out.self.format, name |-> out.self.path,
                   source |-> out.self.source, options |-> out.self.options,
                   create_reload |-> TRUE]
        /\ out.val.ok =>
              /\ out.val.has_reload
              /\ out.val.reload =
                    SingleFile_new(out.self.format, out.calls[1].load.val,
                                   out.self.options, out.self.path,
                                   out.self.source)

\* a handle with modified = 1 was reloaded when the file's time was 2
C15_Witness ==
    /\ out.op = "reload"
    /\ out.val.ok
    /\ out.self.modified = 1
    /\ out.val.reload.modified = 2

\* C20: the handle stored after a successful reload carries the time the
\* import read, so it reports needs_reload() = false for every answer of
\* the source that is an error or a time not greater than that one; and a
\* live handle never changes, so this stays so on every later check.
C20_NoReloadLoop ==
    /\ [](out.op = "store" =>
            /\ handles[out.slot].modified = out.seen
            /\ \A ans \in Answers :
                  (ans.ok => ans.val <= out.seen) =>
                      ~SingleFile_needs_reload(handles[out.slot], ans))
    /\ [][\A s \in DOMAIN handles \cap DOMAIN handles' :
              handles'[s] = handles[s]]_vars

\* a stale handle (stored time 1, file time 2) was reloaded and replaced
C20_Witness ==
    /\ out.op = "store"
    /\ out.old # 0
    /\ out.seen > out.old
    /\ handles[out.slot].modified = out.seen

\* the strategy was built with every(n), directly or through default()
IsEvery == ctor \in {"every", "default"}

\* C12: trigger() on a strategy built with every(n) or never() changes
\* nothing: the variant, interval, `last` and do_reload stay as they are
\* and needs_reload() returns what it returned before the call.
C12_TriggerIgnoredElsewhere ==
    [][(Trigger /\ (IsEvery \/ ctor = "never")) =>
          /\ strategy' = strategy
          /\ needs_reload(strategy') = needs_reload(strategy)]_vars

\* trigger() was the last call on an every(n) strategy that was due
C12_Witness ==
    /\ ctor = "every"
    /\ lastCall = "trigger"
    /\ strategy.do_reload
    /\ strategy.last > 0

\* C13 (as claimed): the do_reload and triggered flags change value only
\* in HotReloadSystem::run.
C13_FlagsChangeOnlyInRun ==
    [][needs_reload(strategy') # needs_reload(strategy) => SystemRun]_vars

\* C13 (amended): do_reload changes value only in HotReloadSystem::run;
\* triggered is cleared only by HotReloadSystem::run and set only by
\* trigger(); needs_reload() changes neither.
C13_FlagsChangeInRunOrTrigger ==
    [][needs_reload(strategy') # needs_reload(strategy) =>
          \/ SystemRun
          \/ /\ Trigger
             /\ strategy.kind = "Trigger"
             /\ ~strategy.triggered
             /\ strategy'.triggered]_vars

\* trigger() armed the strategy after HotReloadSystem ran in this frame
C13_Witness ==
    /\ ctor = "when_triggered"
    /\ strategy.triggered
    /\ lastCall = "trigger"
    /\ RunEntries # {}

\* C16: a strategy built with default() is in the state of an every(1)
\* built at the same instant, and stays equal to it under the same
\* trigger() calls and HotReloadSystem runs: Every, interval 1, and the
\* same `last`, do_reload and needs_reload().
C16_DefaultIsEveryOne ==
    ctor = "default" =>
        /\ strategy = twin
        /\ strategy.kind = "Every"
        /\ strategy.interval = 1
        /\ needs_reload(strategy) = needs_reload(twin)
        /\ lastCall = "new" => strategy = every(1, 0)

\* a default() strategy has fired and trigger() has been called
C16_Witness ==
    /\ ctor = "default"
    /\ strategy.do_reload
    /\ trigNow

\* C17: an every(n) strategy reports needs_reload() = false from its
\* construction until a HotReloadSystem::run sets it, and a run executed
\* with an elapsed time not greater than n seconds (0 and exactly n
\* included) leaves needs_reload() false and `last` unchanged.
C17_NotDueWithinInterval ==
    /\ IsEvery => ~needs_reload(strategy)
    /\ [][IsEvery =>
            /\ (~SystemRun /\ ~needs_reload(strategy))
                  => ~needs_reload(strategy')
            /\ (SystemRun /\ elapsed(strategy.last, now)
                                <= strategy.interval * UnitsPerSec)
                  => (~needs_reload(strategy')
                      /\ strategy'.last = strategy.last)]_vars

\* a run was made exactly n seconds after construction and did not fire
C17_Witness ==
    /\ IsEvery
    /\ strategy.interval > 0
    /\ lastCall = "run"
    /\ fires = <<>>
    /\ ~strategy.do_reload
    /\ elapsed(strategy.last, now) = strategy.interval * UnitsPerSec

\* C18: for every(n), two runs that set do_reload are more than n seconds
\* apart, and the run that follows a firing one clears do_reload unless
\* more than n seconds have elapsed since it.
C18_FiringsRateLimited ==
    /\ []((IsEvery /\ Len(fires) = 2) =>
            fires[2] - fires[1] > strategy.interval * UnitsPerSec)
    /\ [][(/\ IsEvery
           /\ SystemRun
           /\ fires # <<>>
           /\ now - fires[Len(fires)] <= strategy.interval * UnitsPerSec)
          => ~needs_reload(strategy')]_vars

\* two runs have set do_reload
C18_Witness ==
    /\ IsEvery
    /\ Len(fires) = 2
    /\ strategy.last = fires[2]

\* C19: for every(n), when the dispatcher keeps running HotReloadSystem
\* once per frame and the clock keeps advancing, needs_reload() is true
\* again and again: do_reload is never false for ever.
C19_PeriodicReloadLive ==
    []<>(IsEvery /\ needs_reload(strategy))

\* a run fired after the clock went past MaxTime, a second time
C19_Witness ==
    /\ IsEvery
    /\ needs_reload(strategy)
    /\ now = MaxTime
    /\ strategy.last = MaxTime
    /\ Len(fires) = 2
    /\ fires[1] < MaxTime

\* C9 (as claimed): for every(0), a HotReloadSystem::run executed when any
\* non-zero time has elapsed since `last` leaves needs_reload() true.
C9_ZeroIntervalFiresOnAnyElapsed ==
    [][(/\ SystemRun
        /\ ctor = "every"
        /\ strategy.interval = 0
        /\ elapsed(strategy.last, now) > 0)
       => needs_reload(strategy')]_vars
====
